---- MODULE Spec2Model ----
(***************************************************************************)
(* Model of src/gslides/slides_tools.py: the Google Slides tools           *)
(* batch_update_presentation, get_slide_content, update_slide_content,     *)
(* copy_slide and create_slide.                                            *)
(*                                                                         *)
(* One tool invocation is a coroutine.  Each action below is one segment   *)
(* of a coroutine between two awaits (asyncio runs such a segment without  *)
(* interruption), or one answer of the remote Slides service to the call   *)
(* the coroutine is suspended on.                                          *)
(* A second invocation that runs concurrently on the same presentation is  *)
(* kept in the variable peer; it is idle except under SpecConc.            *)
(*                                                                         *)
(* Python values:                                                          *)
(*   dict          a function from key strings to values (a record);       *)
(*                 a missing key is a key outside DOMAIN                   *)
(*   list          a sequence                                              *)
(*   None / value  None and Some(v), for values that dict.get may miss     *)
(*   str (built)   a sequence of string pieces whose concatenation is the  *)
(*                 Python string; text whose characters matter (strip) is  *)
(*                 a sequence of one-character pieces                      *)
(***************************************************************************)
EXTENDS Integers, Sequences, FiniteSets, TLC

VARIABLES
    pc,        \* position of the invocation: "idle", "await_*", "done"
    tool,      \* name of the invoked tool
    args,      \* the invocation's arguments
    locals,    \* the coroutine's local variables
    calls,     \* remote calls issued so far, in order
    pending,   \* the remote call the coroutine is suspended on, and its answer
    warnings,  \* logger.warning records
    answers,   \* answers of the remote service so far, in order
    result,    \* outcome of the invocation: nothing yet, a returned str, a raised fault
    slides,    \* remote state: the presentation's ordered slide list
    peer,      \* a second, concurrent invocation on the same presentation
    remote_log \* the slide list after each applied batchUpdate, and whose it was

vars == <<pc, tool, args, locals, calls, pending, warnings, answers, result, slides,
          peer, remote_log>>

---------------------------------------------------------------------------
(* Bounds *)

MaxUpdates == 2
MaxSlides == 3
MaxElems == 2
MaxRuns == 2
MaxRows == 2

---------------------------------------------------------------------------
(* Python values *)

None == [some |-> FALSE]
Some(v) == [some |-> TRUE, val |-> v]
EmptyDict == [k \in {} |-> 0]

\* d.get(k)
PyGet(d, k) == IF k \in DOMAIN d THEN Some(d[k]) ELSE None

\* d.get(k, default)
PyGetD(d, k, default) == IF k \in DOMAIN d THEN d[k] ELSE default

\* the local variables d after the assignments e
With(d, e) == [k \in DOMAIN d \cup DOMAIN e |-> IF k \in DOMAIN e THEN e[k] ELSE d[k]]

\* sequences over S of length at most n
SeqUpTo(S, n) == UNION {[1..k -> S] : k \in 0..n}

Digits == <<"0", "1", "2", "3", "4", "5", "6", "7", "8", "9">>

\* str(n) for an int n >= 0, one piece per digit
RECURSIVE IntStr(_)
IntStr(n) == IF n < 10 THEN <<Digits[n + 1]>>
             ELSE IntStr(n \div 10) \o <<Digits[(n % 10) + 1]>>

\* f"{x}" for x a str or None
FmtStr(x) == IF x.some THEN <<x.val>> ELSE <<"None">>

\* f"{x}" for x an int or None
FmtInt(x) == IF x.some THEN IntStr(x.val) ELSE <<"None">>

\* sep.join(lines), each line a sequence of pieces
RECURSIVE Join(_, _)
Join(lines, sep) ==
    IF lines = <<>> THEN <<>>
    ELSE IF Len(lines) = 1 THEN lines[1]
    ELSE lines[1] \o <<sep>> \o Join(Tail(lines), sep)

---------------------------------------------------------------------------
(* Inputs *)

Emails == {"user@example.com"}
PresentationIds == {"pres1"}
PageIds == {"page1"}

\* update specs: the three known kinds, with and without their optional
\* keys, and an unknown kind
UpdateSpecs ==
    { [element_id |-> "S1", update_type |-> "shape_text", text |-> "Hi"],
      [element_id |-> "S1", update_type |-> "shape_text"],
      [element_id |-> "T1", update_type |-> "table_cell", row |-> 0, column |-> 1, text |-> "x"],
      [element_id |-> "T1", update_type |-> "table_cell", text |-> "y"],
      [element_id |-> "I1", update_type |-> "image_description", description |-> "pic"],
      [element_id |-> "S1", update_type |-> "bogus", text |-> "Hi"],
      [element_id |-> "S2"],
      [update_type |-> "shape_text", text |-> "Hi"] }

UpdateLists == SeqUpTo(UpdateSpecs, MaxUpdates)

---------------------------------------------------------------------------
(* update_slide_content: building the batchUpdate requests *)

\* ShapeTextRequests with the pair in the wrong order
ShapeTextRequestsInsertFirst(upd) ==
    LET element_id == PyGet(upd, "element_id")
        text == PyGetD(upd, "text", "")
    IN << [insertText |-> [objectId |-> element_id,
                           insertionIndex |-> 0,
                           text |-> text]],
          [deleteText |-> [objectId |-> element_id,
                           textRange |-> [type |-> "ALL"]]] >>

ShapeTextRequests(upd) ==
    LET element_id == PyGet(upd, "element_id")
        text == PyGetD(upd, "text", "")
    IN << [deleteText |-> [objectId |-> element_id,
                           textRange |-> [type |-> "ALL"]]],
          [insertText |-> [objectId |-> element_id,
                           insertionIndex |-> 0,
                           text |-> text]] >>

TableCellRequests(upd) ==
    LET element_id == PyGet(upd, "element_id")
        row == PyGet(upd, "row")
        col == PyGet(upd, "column")
        text == PyGetD(upd, "text", "")
    IN << [deleteText |-> [objectId |-> element_id,
                           cellLocation |-> [rowIndex |-> row, columnIndex |-> col],
                           textRange |-> [type |-> "ALL"]]],
          [insertText |-> [objectId |-> element_id,
                           cellLocation |-> [rowIndex |-> row, columnIndex |-> col],
                           insertionIndex |-> 0,
                           text |-> text]] >>

ImageDescriptionRequests(upd) ==
    LET element_id == PyGet(upd, "element_id")
        description == PyGetD(upd, "description", "")
    IN << [updateImageProperties |-> [objectId |-> element_id,
                                      fields |-> "description",
                                      imageProperties |-> [description |-> description]]] >>

\* RequestsFor with an unknown update_type handled as shape_text
RequestsForLenient(upd) ==
    LET update_type == PyGet(upd, "update_type")
    IN IF update_type = Some("table_cell") THEN TableCellRequests(upd)
       ELSE IF update_type = Some("image_description") THEN ImageDescriptionRequests(upd)
       ELSE ShapeTextRequests(upd)

\* the requests one pass of the loop body appends
RequestsFor(upd) ==
    LET update_type == PyGet(upd, "update_type")
    IN IF update_type = Some("shape_text") THEN ShapeTextRequests(upd)
       ELSE IF update_type = Some("table_cell") THEN TableCellRequests(upd)
       ELSE IF update_type = Some("image_description") THEN ImageDescriptionRequests(upd)
       ELSE <<>>

\* the requests list after the loop over updates
RECURSIVE BuildRequests(_)
BuildRequests(updates) ==
    IF updates = <<>> THEN <<>>
    ELSE RequestsFor(Head(updates)) \o BuildRequests(Tail(updates))

\* the warning one pass of the loop body logs, if any
WarningsFor(upd) ==
    LET update_type == PyGet(upd, "update_type")
    IN IF update_type \in {Some("shape_text"), Some("table_cell"), Some("image_description")}
       THEN <<>>
       ELSE << <<"Unknown update_type '">> \o FmtStr(update_type)
               \o <<"' for element ">> \o FmtStr(PyGet(upd, "element_id")) >>

RECURSIVE BuildWarnings(_)
BuildWarnings(updates) ==
    IF updates = <<>> THEN <<>>
    ELSE WarningsFor(Head(updates)) \o BuildWarnings(Tail(updates))

---------------------------------------------------------------------------
(* update_slide_content: the summary *)

SummaryLine(upd) ==
    LET update_type == PyGet(upd, "update_type")
        element_id == PyGet(upd, "element_id")
    IN IF update_type = Some("shape_text")
       THEN <<"Shape (ID: ">> \o FmtStr(element_id) \o <<"): Text updated">>
       ELSE IF update_type = Some("table_cell")
       THEN <<"Table (ID: ">> \o FmtStr(element_id) \o <<"), Cell (">>
            \o FmtInt(PyGet(upd, "row")) \o <<", ">> \o FmtInt(PyGet(upd, "column"))
            \o <<"): Text updated">>
       ELSE IF update_type = Some("image_description")
       THEN <<"Image (ID: ">> \o FmtStr(element_id) \o <<"): Description updated">>
       ELSE <<"Element (ID: ">> \o FmtStr(element_id) \o <<"): Skipped (unknown type)">>

\* BuildSummary without the lines of the skipped specs
BuildSummaryKnownOnly(updates) ==
    LET known == SelectSeq(updates,
                     LAMBDA upd : PyGet(upd, "update_type")
                                    \in {Some("shape_text"), Some("table_cell"),
                                         Some("image_description")})
    IN [i \in 1..Len(known) |-> SummaryLine(known[i])]

BuildSummary(updates) == [i \in 1..Len(updates) |-> SummaryLine(updates[i])]

UpdateConfirmation(a, requests, replies, summary) ==
    <<"Slide Content Update Results for ", a.user_google_email,
      ":\n- Presentation ID: ", a.presentation_id,
      "\n- Page ID: ", a.page_object_id,
      "\n- Updates Requested: ">> \o IntStr(Len(a.updates))
    \o <<"\n- Requests Sent: ">> \o IntStr(Len(requests))
    \o <<"\n- Replies Received: ">> \o IntStr(Len(replies))
    \o <<"\n\nUpdate Summary:\n">> \o Join(summary, "\n") \o <<"\n">>

NoValidUpdates == <<"No valid updates were provided.">>

---------------------------------------------------------------------------
(* Outcomes and remote calls *)

NoResult == [kind |-> "none"]
Return(s) == [kind |-> "return", value |-> s]
Raise(e) == [kind |-> "raise", exc |-> e]

NoPending == [status |-> "none"]
InFlight(call) == [status |-> "inflight", call |-> call]

GetCall(pid) == [method |-> "presentations.get", presentationId |-> pid]
BatchUpdateCall(pid, requests) ==
    [method |-> "presentations.batchUpdate", presentationId |-> pid,
     body |-> [requests |-> requests]]

\* the fault an await re-raises in the coroutine when the remote call failed
Answered == pending.status \in {"ok", "error"}

---------------------------------------------------------------------------
(* The remote Slides service *)

NewSlideId == "new1"

\* reply bodies a successful batchUpdate whose request creates an object of
\* kind k ("duplicateObject", "createSlide") may carry
CreatingReplies(k) ==
    { EmptyDict,
      [replies |-> <<>>],
      [replies |-> <<EmptyDict>>],
      [replies |-> << [kk \in {k} |-> EmptyDict] >>],
      [replies |-> << [kk \in {k} |-> [objectId |-> ""]] >>],
      [replies |-> << [kk \in {k} |-> [objectId |-> NewSlideId]] >>] }

\* reply bodies of a successful batchUpdate of text and image requests
PlainReplies(requests) ==
    { EmptyDict, [replies |-> [i \in 1..Len(requests) |-> EmptyDict]] }

\* the id the service gives a created shape
NewShapeId == "s1"

\* reply bodies of a successful batchUpdate whose request creates a shape
ShapeReplies ==
    { EmptyDict,
      [replies |-> << [createShape |-> EmptyDict] >>],
      [replies |-> << [createShape |-> [objectId |-> NewShapeId]] >>] }

\* replies the service may give to one request of a batch
ReplyOptions(req) ==
    IF "duplicateObject" \in DOMAIN req
    THEN { EmptyDict, [duplicateObject |-> EmptyDict],
           [duplicateObject |-> [objectId |-> ""]],
           [duplicateObject |-> [objectId |-> NewSlideId]] }
    ELSE IF "createSlide" \in DOMAIN req
    THEN { EmptyDict, [createSlide |-> EmptyDict],
           [createSlide |-> [objectId |-> ""]],
           [createSlide |-> [objectId |-> NewSlideId]] }
    ELSE IF "createShape" \in DOMAIN req
    THEN { EmptyDict, [createShape |-> EmptyDict],
           [createShape |-> [objectId |-> NewShapeId]] }
    ELSE {EmptyDict}

\* reply lists with one reply per request, in the order of the requests
ReplyLists(requests) ==
    { r \in [1..Len(requests) ->
                UNION {ReplyOptions(requests[i]) : i \in 1..Len(requests)}] :
        \A i \in 1..Len(requests) : r[i] \in ReplyOptions(requests[i]) }

\* reply bodies of a successful batchUpdate: one reply per request, or a
\* body without the replies key or with an empty replies list
BatchResponses(requests) ==
    (IF "duplicateObject" \in DOMAIN requests[1] THEN CreatingReplies("duplicateObject")
     ELSE IF "createSlide" \in DOMAIN requests[1] THEN CreatingReplies("createSlide")
     ELSE IF "createShape" \in DOMAIN requests[1] THEN ShapeReplies
     ELSE PlainReplies(requests))
    \cup {[replies |-> r] : r \in ReplyLists(requests)}

\* sl with slide s inserted at zero-based position i
InsertAt(sl, i, s) == SubSeq(sl, 1, i) \o <<s>> \o SubSeq(sl, i + 1, Len(sl))

\* whether the service accepts the request against slide list sl
Accepts(sl, req) ==
    IF "duplicateObject" \in DOMAIN req
    THEN /\ \E i \in 1..Len(sl) : sl[i].objectId = req.duplicateObject.objectId
         /\ req.duplicateObject.insertionIndex \in 0..Len(sl)
    ELSE IF "createSlide" \in DOMAIN req
    THEN "insertionIndex" \in DOMAIN req.createSlide
            => req.createSlide.insertionIndex \in 0..Len(sl)
    ELSE IF "deleteObject" \in DOMAIN req
    THEN \E i \in 1..Len(sl) : sl[i].objectId = req.deleteObject.objectId
    ELSE IF "createShape" \in DOMAIN req
    THEN \E i \in 1..Len(sl) :
             sl[i].objectId = req.createShape.elementProperties.pageObjectId
    ELSE IF "updateSlidesPosition" \in DOMAIN req
    THEN /\ \A k \in 1..Len(req.updateSlidesPosition.slideObjectIds) :
               \E i \in 1..Len(sl) :
                   sl[i].objectId = req.updateSlidesPosition.slideObjectIds[k]
         /\ req.updateSlidesPosition.insertionIndex \in 0..Len(sl)
    ELSE TRUE

\* sl without the slides whose ids are in ids
Without(sl, ids) == SelectSeq(sl, LAMBDA x : x.objectId \notin ids)

\* sl with the slides whose ids are in ids moved, in their order, to the
\* place that was zero-based position i before the move
MovedTo(sl, ids, i) ==
    LET moving == SelectSeq(sl, LAMBDA x : x.objectId \in ids)
        before == Without(SubSeq(sl, 1, i), ids)
        after == Without(SubSeq(sl, i + 1, Len(sl)), ids)
    IN before \o moving \o after

\* the slide list after the service applied the request; a slide the
\* request adds gets the id new_id
ApplyAs(sl, req, new_id) ==
    IF "duplicateObject" \in DOMAIN req
    THEN InsertAt(sl, req.duplicateObject.insertionIndex, [objectId |-> new_id])
    ELSE IF "createSlide" \in DOMAIN req
    THEN InsertAt(sl, PyGetD(req.createSlide, "insertionIndex", Len(sl)),
                  [objectId |-> new_id])
    ELSE IF "deleteObject" \in DOMAIN req
    THEN Without(sl, {req.deleteObject.objectId})
    ELSE IF "updateSlidesPosition" \in DOMAIN req
    THEN MovedTo(sl, {req.updateSlidesPosition.slideObjectIds[k] :
                         k \in 1..Len(req.updateSlidesPosition.slideObjectIds)},
                 req.updateSlidesPosition.insertionIndex)
    ELSE sl

\* the slide list after the service applied the request
Apply(sl, req) == ApplyAs(sl, req, NewSlideId)

\* whether the service accepts the requests of one batch, in their order
RECURSIVE AcceptsAll(_, _, _)
AcceptsAll(sl, requests, new_id) ==
    IF Len(requests) = 0 THEN TRUE
    ELSE /\ Accepts(sl, Head(requests))
         /\ AcceptsAll(ApplyAs(sl, Head(requests), new_id), Tail(requests), new_id)

\* the slide list after the service applied the requests of one batch
RECURSIVE ApplyAll(_, _, _)
ApplyAll(sl, requests, new_id) ==
    IF Len(requests) = 0 THEN sl
    ELSE ApplyAll(ApplyAs(sl, Head(requests), new_id), Tail(requests), new_id)

\* presentations().get(...).execute answers; an empty slide list may be omitted
ServerGetPresentation ==
    /\ pending.status = "inflight"
    /\ pending.call.method = "presentations.get"
    /\ \E body \in {[presentationId |-> pending.call.presentationId, slides |-> slides]}
                   \cup (IF slides = <<>>
                         THEN {[presentationId |-> pending.call.presentationId]}
                         ELSE {}) :
           /\ pending' = [status |-> "ok", call |-> pending.call, body |-> body]
           /\ answers' = Append(answers, [status |-> "ok", body |-> body])
    /\ UNCHANGED <<pc, tool, args, locals, calls, warnings, result, slides,
                  peer, remote_log>>

\* presentations().batchUpdate(...).execute answers; the batch is applied
ServerBatchUpdate ==
    /\ pending.status = "inflight"
    /\ pending.call.method = "presentations.batchUpdate"
    /\ LET requests == pending.call.body.requests
       IN /\ Len(requests) > 0
          /\ AcceptsAll(slides, requests, NewSlideId)
          /\ slides' = ApplyAll(slides, requests, NewSlideId)
          /\ remote_log' = Append(remote_log, [by |-> "self", slides |-> slides'])
          /\ \E body \in BatchResponses(requests) :
                 /\ pending' = [status |-> "ok", call |-> pending.call, body |-> body]
                 /\ answers' = Append(answers, [status |-> "ok", body |-> body])
    /\ UNCHANGED <<pc, tool, args, locals, calls, warnings, result, peer>>

\* .execute raises: the remote call failed
ServerRaise ==
    /\ pending.status = "inflight"
    /\ pending' = [status |-> "error", call |-> pending.call, exc |-> "HttpError"]
    /\ answers' = Append(answers, [status |-> "error", exc |-> "HttpError"])
    /\ UNCHANGED <<pc, tool, args, locals, calls, warnings, result, slides,
                  peer, remote_log>>

---------------------------------------------------------------------------
(* update_slide_content *)

\* from the call to the first await, or to the early return
UpdateSlideContentStart ==
    /\ pc = "idle"
    /\ \E e \in Emails, p \in PresentationIds, g \in PageIds, u \in UpdateLists :
         LET a == [user_google_email |-> e, presentation_id |-> p,
                   page_object_id |-> g, updates |-> u]
             requests == BuildRequests(u)
             call == BatchUpdateCall(p, requests)
         IN /\ tool' = "update_slide_content"
            /\ args' = a
            /\ warnings' = warnings \o BuildWarnings(u)
            /\ locals' = [requests |-> requests]
            /\ IF Len(requests) = 0
               THEN /\ result' = Return(NoValidUpdates)
                    /\ pc' = "done"
                    /\ UNCHANGED <<calls, pending>>
               ELSE /\ calls' = Append(calls, call)
                    /\ pending' = InFlight(call)
                    /\ pc' = "await_batch"
                    /\ UNCHANGED result
    /\ UNCHANGED <<answers, slides, peer, remote_log>>

\* UpdateSlideContentResume sending the batch a second time when the first
\* attempt failed
UpdateSlideContentResumeRetry ==
    /\ pc = "await_batch"
    /\ Answered
    /\ IF pending.status = "error" /\ Len(calls) = 1
       THEN /\ calls' = Append(calls, pending.call)
            /\ pending' = InFlight(pending.call)
            /\ pc' = "await_batch"
            /\ UNCHANGED <<locals, result>>
       ELSE /\ IF pending.status = "error"
               THEN /\ result' = Raise(pending.exc)
                    /\ UNCHANGED locals
               ELSE LET replies == PyGetD(pending.body, "replies", <<>>)
                        summary == BuildSummary(args.updates)
                    IN /\ locals' = With(locals, [result |-> pending.body,
                                                   replies |-> replies,
                                                   summary |-> summary])
                       /\ result' = Return(UpdateConfirmation(args, locals.requests,
                                                               replies, summary))
            /\ pc' = "done"
            /\ pending' = NoPending
            /\ UNCHANGED calls
    /\ UNCHANGED <<tool, args, warnings, answers, slides, peer, remote_log>>

\* from the answer of the batchUpdate to the return
UpdateSlideContentResume ==
    /\ pc = "await_batch"
    /\ Answered
    /\ IF pending.status = "error"
       THEN /\ result' = Raise(pending.exc)
            /\ UNCHANGED locals
       ELSE LET replies == PyGetD(pending.body, "replies", <<>>)
                summary == BuildSummary(args.updates)
            IN /\ locals' = With(locals, [result |-> pending.body, replies |-> replies,
                                           summary |-> summary])
               /\ result' = Return(UpdateConfirmation(args, locals.requests, replies, summary))
    /\ pc' = "done"
    /\ pending' = NoPending
    /\ UNCHANGED <<tool, args, calls, warnings, answers, slides, peer, remote_log>>

---------------------------------------------------------------------------
(* batch_update_presentation *)

\* requests a caller may pass
CallerRequests ==
    { [createSlide |-> EmptyDict],
      [createSlide |-> [insertionIndex |-> 0]],
      [createShape |-> [shapeType |-> "TEXT_BOX",
                        elementProperties |-> [pageObjectId |-> "p1"]]],
      [deleteObject |-> [objectId |-> "p1"]],
      [deleteObject |-> [objectId |-> "zz"]],
      [updateSlidesPosition |-> [slideObjectIds |-> <<"p2">>, insertionIndex |-> 0]] }

\* request lists a caller may pass: none, one request, or a deletion
\* followed by a creation
CallerRequestLists ==
    {<<>>} \cup {<<r>> : r \in CallerRequests}
    \cup {<< [deleteObject |-> [objectId |-> "p1"]],
              [createSlide |-> [insertionIndex |-> 0]] >>}

\* the line of "Update Results" for reply number i
ReplyLine(i, reply) ==
    IF "createSlide" \in DOMAIN reply
    THEN <<"\n  Request ">> \o IntStr(i) \o <<": Created slide with ID ",
           PyGetD(reply.createSlide, "objectId", "Unknown")>>
    ELSE IF "createShape" \in DOMAIN reply
    THEN <<"\n  Request ">> \o IntStr(i) \o <<": Created shape with ID ",
           PyGetD(reply.createShape, "objectId", "Unknown")>>
    ELSE <<"\n  Request ">> \o IntStr(i) \o <<": Operation completed">>

\* the lines of "Update Results" for replies i..Len(replies)
RECURSIVE ReplyLines(_, _)
ReplyLines(replies, i) ==
    IF i > Len(replies) THEN <<>>
    ELSE ReplyLine(i, replies[i]) \o ReplyLines(replies, i + 1)

BatchUpdateConfirmation(a, replies) ==
    <<"Batch Update Completed for ", a.user_google_email,
      ":\n- Presentation ID: ", a.presentation_id,
      "\n- URL: https://docs.google.com/presentation/d/", a.presentation_id, "/edit",
      "\n- Requests Applied: ">> \o IntStr(Len(a.requests))
    \o <<"\n- Replies Received: ">> \o IntStr(Len(replies))
    \o (IF Len(replies) > 0
        THEN <<"\n\nUpdate Results:">> \o ReplyLines(replies, 1)
        ELSE <<>>)

\* from the call to the await of the batchUpdate
BatchUpdatePresentationStart ==
    /\ pc = "idle"
    /\ \E e \in Emails, p \in PresentationIds, requests \in CallerRequestLists :
         LET call == BatchUpdateCall(p, requests)
         IN /\ tool' = "batch_update_presentation"
            /\ args' = [user_google_email |-> e, presentation_id |-> p,
                        requests |-> requests]
            /\ locals' = [body |-> [requests |-> requests]]
            /\ calls' = Append(calls, call)
            /\ pending' = InFlight(call)
    /\ pc' = "await_batch_update"
    /\ UNCHANGED <<warnings, answers, result, slides, peer, remote_log>>

\* from the answer of the batchUpdate to the return
BatchUpdatePresentationResume ==
    /\ pc = "await_batch_update"
    /\ Answered
    /\ IF pending.status = "error"
       THEN /\ result' = Raise(pending.exc)
            /\ UNCHANGED locals
       ELSE LET replies == PyGetD(pending.body, "replies", <<>>)
            IN /\ locals' = With(locals, [result |-> pending.body, replies |-> replies])
               /\ result' = Return(BatchUpdateConfirmation(args, replies))
    /\ pc' = "done"
    /\ pending' = NoPending
    /\ UNCHANGED <<tool, args, calls, warnings, answers, slides, peer, remote_log>>

---------------------------------------------------------------------------
(* copy_slide *)

SourceIds == {"p1", "p2", "p3", "p4", "zz"}

\* updates: List[...] = None
OptionalUpdateLists == {None} \cup {Some(u) : u \in UpdateLists}

\* FindInsertionIndex falling back to the end of the list when no slide matches
FindInsertionIndexOrEnd(sl, source) ==
    LET found == {idx \in 0..(Len(sl) - 1) : PyGet(sl[idx + 1], "objectId") = Some(source)}
    IN IF found = {} THEN Some(Len(sl))
       ELSE Some((CHOOSE idx \in found : \A j \in found : idx <= j) + 1)

\* FindInsertionIndex giving the source's own position
FindInsertionIndexAtSource(sl, source) ==
    LET found == {idx \in 0..(Len(sl) - 1) : PyGet(sl[idx + 1], "objectId") = Some(source)}
    IN IF found = {} THEN None
       ELSE Some(CHOOSE idx \in found : \A j \in found : idx <= j)

\* the loop over enumerate(slides): idx + 1 for the first slide whose
\* objectId is the source's, None when the loop ends without a break
FindInsertionIndex(sl, source) ==
    LET found == {idx \in 0..(Len(sl) - 1) : PyGet(sl[idx + 1], "objectId") = Some(source)}
    IN IF found = {} THEN None
       ELSE Some((CHOOSE idx \in found : \A j \in found : idx <= j) + 1)

DuplicateRequest(source, insertion_index) ==
    [duplicateObject |-> [objectId |-> source, insertionIndex |-> insertion_index]]

\* CopyRequestsFor compiling an unrecognised update_type like shape_text
CopyRequestsForLenient(upd) ==
    LET element_id == PyGet(upd, "element_id")
        update_type == PyGet(upd, "update_type")
    IN IF update_type = Some("table_cell")
       THEN LET row == PyGet(upd, "row")
                col == PyGet(upd, "column")
                text == PyGetD(upd, "text", "")
            IN << [deleteText |-> [objectId |-> element_id,
                                   cellLocation |-> [rowIndex |-> row, columnIndex |-> col],
                                   textRange |-> [type |-> "ALL"]]],
                  [insertText |-> [objectId |-> element_id,
                                   cellLocation |-> [rowIndex |-> row, columnIndex |-> col],
                                   insertionIndex |-> 0,
                                   text |-> text]] >>
       ELSE IF update_type = Some("image_description")
       THEN LET description == PyGetD(upd, "description", "")
            IN << [updateImageProperties |->
                      [objectId |-> element_id,
                       fields |-> "description",
                       imageProperties |-> [description |-> description]]] >>
       ELSE LET text == PyGetD(upd, "text", "")
            IN << [deleteText |-> [objectId |-> element_id,
                                   textRange |-> [type |-> "ALL"]]],
                  [insertText |-> [objectId |-> element_id,
                                   insertionIndex |-> 0,
                                   text |-> text]] >>

\* CopyRequestsFor without the image_description branch
CopyRequestsForNoImage(upd) ==
    LET element_id == PyGet(upd, "element_id")
        update_type == PyGet(upd, "update_type")
    IN IF update_type = Some("shape_text")
       THEN LET text == PyGetD(upd, "text", "")
            IN << [deleteText |-> [objectId |-> element_id,
                                   textRange |-> [type |-> "ALL"]]],
                  [insertText |-> [objectId |-> element_id,
                                   insertionIndex |-> 0,
                                   text |-> text]] >>
       ELSE IF update_type = Some("table_cell")
       THEN LET row == PyGet(upd, "row")
                col == PyGet(upd, "column")
                text == PyGetD(upd, "text", "")
            IN << [deleteText |-> [objectId |-> element_id,
                                   cellLocation |-> [rowIndex |-> row, columnIndex |-> col],
                                   textRange |-> [type |-> "ALL"]]],
                  [insertText |-> [objectId |-> element_id,
                                   cellLocation |-> [rowIndex |-> row, columnIndex |-> col],
                                   insertionIndex |-> 0,
                                   text |-> text]] >>
       ELSE <<>>

\* the requests one pass of copy_slide's loop body appends
CopyRequestsFor(upd) ==
    LET element_id == PyGet(upd, "element_id")
        update_type == PyGet(upd, "update_type")
    IN IF update_type = Some("shape_text")
       THEN LET text == PyGetD(upd, "text", "")
            IN << [deleteText |-> [objectId |-> element_id,
                                   textRange |-> [type |-> "ALL"]]],
                  [insertText |-> [objectId |-> element_id,
                                   insertionIndex |-> 0,
                                   text |-> text]] >>
       ELSE IF update_type = Some("table_cell")
       THEN LET row == PyGet(upd, "row")
                col == PyGet(upd, "column")
                text == PyGetD(upd, "text", "")
            IN << [deleteText |-> [objectId |-> element_id,
                                   cellLocation |-> [rowIndex |-> row, columnIndex |-> col],
                                   textRange |-> [type |-> "ALL"]]],
                  [insertText |-> [objectId |-> element_id,
                                   cellLocation |-> [rowIndex |-> row, columnIndex |-> col],
                                   insertionIndex |-> 0,
                                   text |-> text]] >>
       ELSE IF update_type = Some("image_description")
       THEN LET description == PyGetD(upd, "description", "")
            IN << [updateImageProperties |->
                      [objectId |-> element_id,
                       fields |-> "description",
                       imageProperties |-> [description |-> description]]] >>
       ELSE <<>>

\* update_requests after copy_slide's loop over updates
RECURSIVE CopyBuildRequests(_)
CopyBuildRequests(updates) ==
    IF updates = <<>> THEN <<>>
    ELSE CopyRequestsFor(Head(updates)) \o CopyBuildRequests(Tail(updates))

\* "if updates:" for a list or None
Truthy(updates) == updates.some /\ Len(updates.val) > 0

\* NoId testing "is None" only
NoIdOnlyNone(id) == ~id.some

\* "if not new_slide_id:" for a str or None
NoId(id) == ~id.some \/ id.val = ""

SourceNotFound(source) ==
    <<"Source slide with object ID '", source, "' not found.">>

DuplicateFailed(source) == <<"Failed to duplicate slide ", source, ".">>

UpdateSummary(update_requests, update_result) ==
    <<"\n- Updates Applied: ">> \o IntStr(Len(update_requests))
    \o <<" request(s) sent, ">>
    \o IntStr(Len(PyGetD(update_result, "replies", <<>>)))
    \o <<" replies received.">>

CopyConfirmation(a, new_slide_id, insertion_index, update_summary) ==
    <<"Slide Copied Successfully for ", a.user_google_email,
      ":\n- Presentation ID: ", a.presentation_id,
      "\n- Source Page ID: ", a.source_page_object_id,
      "\n- New Slide ID: ", new_slide_id,
      "\n- Insertion Index: ">> \o IntStr(insertion_index)
    \o <<"\n">> \o update_summary
    \o <<"\n- URL: https://docs.google.com/presentation/d/", a.presentation_id,
         "/edit#slide=id.", new_slide_id, "\n">>

\* from the call to the await of presentations().get
CopySlideStart ==
    /\ pc = "idle"
    /\ \E e \in Emails, p \in PresentationIds, src \in SourceIds,
          u \in OptionalUpdateLists :
         LET call == GetCall(p)
         IN /\ tool' = "copy_slide"
            /\ args' = [user_google_email |-> e, presentation_id |-> p,
                        source_page_object_id |-> src, updates |-> u]
            /\ calls' = Append(calls, call)
            /\ pending' = InFlight(call)
    /\ pc' = "await_get"
    /\ UNCHANGED <<locals, warnings, answers, result, slides, peer, remote_log>>

\* from the answer of presentations().get to the await of the duplication
\* batchUpdate, or to the not-found return
CopySlideAfterGet ==
    /\ pc = "await_get"
    /\ Answered
    /\ IF pending.status = "error"
       THEN /\ result' = Raise(pending.exc)
            /\ pc' = "done"
            /\ pending' = NoPending
            /\ UNCHANGED <<locals, calls>>
       ELSE LET fetched == PyGetD(pending.body, "slides", <<>>)
                insertion_index == FindInsertionIndex(fetched, args.source_page_object_id)
            IN IF ~insertion_index.some
               THEN /\ result' = Return(SourceNotFound(args.source_page_object_id))
                    /\ pc' = "done"
                    /\ pending' = NoPending
                    /\ locals' = [presentation |-> pending.body, slides |-> fetched]
                    /\ UNCHANGED calls
               ELSE LET requests == <<DuplicateRequest(args.source_page_object_id,
                                                       insertion_index.val)>>
                        call == BatchUpdateCall(args.presentation_id, requests)
                    IN /\ locals' = [presentation |-> pending.body, slides |-> fetched,
                                     insertion_index |-> insertion_index.val,
                                     requests |-> requests]
                       /\ calls' = Append(calls, call)
                       /\ pending' = InFlight(call)
                       /\ pc' = "await_dup"
                       /\ UNCHANGED result
    /\ UNCHANGED <<tool, args, warnings, answers, slides, peer, remote_log>>

\* from the answer of the duplication batchUpdate to the await of the
\* content-update batchUpdate, or to a return
CopySlideAfterDuplicate ==
    /\ pc = "await_dup"
    /\ Answered
    /\ IF pending.status = "error"
       THEN /\ result' = Raise(pending.exc)
            /\ pc' = "done"
            /\ pending' = NoPending
            /\ UNCHANGED <<locals, calls>>
       ELSE LET replies == PyGetD(pending.body, "replies", <<EmptyDict>>)
            IN IF Len(replies) = 0
               THEN \* [][0]
                    /\ result' = Raise("IndexError")
                    /\ pc' = "done"
                    /\ pending' = NoPending
                    /\ locals' = With(locals, [batch_result |-> pending.body])
                    /\ UNCHANGED calls
               ELSE LET reply == replies[1]
                        new_slide_id == PyGet(PyGetD(reply, "duplicateObject", EmptyDict),
                                              "objectId")
                        update_requests ==
                            IF Truthy(args.updates)
                            THEN CopyBuildRequests(args.updates.val)
                            ELSE <<>>
                        call == BatchUpdateCall(args.presentation_id, update_requests)
                    IN IF NoId(new_slide_id)
                       THEN /\ result' = Return(DuplicateFailed(args.source_page_object_id))
                            /\ pc' = "done"
                            /\ pending' = NoPending
                            /\ locals' = With(locals, [batch_result |-> pending.body,
                                                       reply |-> reply])
                            /\ UNCHANGED calls
                       ELSE IF Len(update_requests) > 0
                       THEN /\ locals' = With(locals, [batch_result |-> pending.body,
                                                       reply |-> reply,
                                                       new_slide_id |-> new_slide_id.val,
                                                       update_requests |-> update_requests])
                            /\ calls' = Append(calls, call)
                            /\ pending' = InFlight(call)
                            /\ pc' = "await_update"
                            /\ UNCHANGED result
                       ELSE /\ locals' =
                                  IF Truthy(args.updates)
                                  THEN With(locals, [batch_result |-> pending.body,
                                                     reply |-> reply,
                                                     new_slide_id |-> new_slide_id.val,
                                                     update_requests |-> update_requests])
                                  ELSE \* the block under "if updates:" is skipped
                                       With(locals, [batch_result |-> pending.body,
                                                     reply |-> reply,
                                                     new_slide_id |-> new_slide_id.val])
                            /\ result' = Return(CopyConfirmation(args, new_slide_id.val,
                                                    locals.insertion_index, <<>>))
                            /\ pc' = "done"
                            /\ pending' = NoPending
                            /\ UNCHANGED calls
    /\ UNCHANGED <<tool, args, warnings, answers, slides, peer, remote_log>>

\* CopySlideAfterUpdate catching the failure of the content-update batch
CopySlideAfterUpdateBestEffort ==
    /\ pc = "await_update"
    /\ Answered
    /\ IF pending.status = "error"
       THEN /\ result' = Return(CopyConfirmation(args, locals.new_slide_id,
                                    locals.insertion_index,
                                    <<"\n- Updates Failed: ", pending.exc>>))
            /\ UNCHANGED locals
       ELSE /\ locals' = With(locals, [update_result |-> pending.body])
            /\ result' = Return(CopyConfirmation(args, locals.new_slide_id,
                                    locals.insertion_index,
                                    UpdateSummary(locals.update_requests, pending.body)))
    /\ pc' = "done"
    /\ pending' = NoPending
    /\ UNCHANGED <<tool, args, calls, warnings, answers, slides, peer, remote_log>>

\* from the answer of the content-update batchUpdate to the return
CopySlideAfterUpdate ==
    /\ pc = "await_update"
    /\ Answered
    /\ IF pending.status = "error"
       THEN /\ result' = Raise(pending.exc)
            /\ UNCHANGED locals
       ELSE /\ locals' = With(locals, [update_result |-> pending.body])
            /\ result' = Return(CopyConfirmation(args, locals.new_slide_id,
                                    locals.insertion_index,
                                    UpdateSummary(locals.update_requests, pending.body)))
    /\ pc' = "done"
    /\ pending' = NoPending
    /\ UNCHANGED <<tool, args, calls, warnings, answers, slides, peer, remote_log>>

---------------------------------------------------------------------------
(* create_slide *)

InsertionIndexes == {None} \cup {Some(i) : i \in 0..MaxSlides}
LayoutIds == {None, Some("L1")}

\* the createSlide request: a key only for an argument that is not None
CreateSlideRequest(insertion_index, layout_id) ==
    [createSlide |->
        [k \in (IF insertion_index.some THEN {"insertionIndex"} ELSE {})
               \cup (IF layout_id.some THEN {"slideLayoutReference"} ELSE {}) |->
            IF k = "insertionIndex" THEN insertion_index.val
            ELSE [layoutId |-> layout_id.val]]]

CreateFailed == <<"Failed to create a new slide.">>

CreateConfirmation(a, new_slide_id) ==
    <<"Slide Created Successfully for ", a.user_google_email,
      ":\n- Presentation ID: ", a.presentation_id,
      "\n- New Slide ID: ", new_slide_id,
      "\n- Insertion Index: ">>
    \o (IF a.insertion_index.some THEN IntStr(a.insertion_index.val) ELSE <<"end">>)
    \o <<"\n- Layout ID: ">>
    \o (IF a.layout_id.some /\ a.layout_id.val # "" THEN <<a.layout_id.val>>
        ELSE <<"default">>)
    \o <<"\n- URL: https://docs.google.com/presentation/d/", a.presentation_id,
         "/edit#slide=id.", new_slide_id, "\n">>

\* from the call to the await of the batchUpdate
CreateSlideStart ==
    /\ pc = "idle"
    /\ \E e \in Emails, p \in PresentationIds, ii \in InsertionIndexes,
          lid \in LayoutIds :
         LET requests == <<CreateSlideRequest(ii, lid)>>
             call == BatchUpdateCall(p, requests)
         IN /\ tool' = "create_slide"
            /\ args' = [user_google_email |-> e, presentation_id |-> p,
                        insertion_index |-> ii, layout_id |-> lid]
            /\ locals' = [requests |-> requests]
            /\ calls' = Append(calls, call)
            /\ pending' = InFlight(call)
    /\ pc' = "await_create"
    /\ UNCHANGED <<warnings, answers, result, slides, peer, remote_log>>

\* from the answer of the batchUpdate to the return
CreateSlideResume ==
    /\ pc = "await_create"
    /\ Answered
    /\ IF pending.status = "error"
       THEN /\ result' = Raise(pending.exc)
            /\ UNCHANGED locals
       ELSE LET replies == PyGetD(pending.body, "replies", <<EmptyDict>>)
            IN /\ locals' = With(locals, [result |-> pending.body])
               /\ IF Len(replies) = 0
                  THEN \* [][0]
                       result' = Raise("IndexError")
                  ELSE LET reply == replies[1]
                           new_slide_id == PyGet(PyGetD(reply, "createSlide", EmptyDict),
                                                 "objectId")
                       IN IF NoId(new_slide_id)
                          THEN result' = Return(CreateFailed)
                          ELSE result' = Return(CreateConfirmation(args, new_slide_id.val))
    /\ pc' = "done"
    /\ pending' = NoPending
    /\ UNCHANGED <<tool, args, calls, warnings, answers, slides, peer, remote_log>>

---------------------------------------------------------------------------
(* get_slide_content: text *)

\* the characters str.strip() removes, among those of the model
IsSpace(c) == c \in {" ", "\n", "\t"}

\* s.lstrip(), s a sequence of one-character pieces
RECURSIVE LStrip(_)
LStrip(s) == IF s # <<>> /\ IsSpace(Head(s)) THEN LStrip(Tail(s)) ELSE s

\* s.rstrip()
RECURSIVE RStrip(_)
RStrip(s) == IF s # <<>> /\ IsSpace(s[Len(s)]) THEN RStrip(SubSeq(s, 1, Len(s) - 1)) ELSE s

\* s.strip()
Strip(s) == RStrip(LStrip(s))

\* the loop over text_elements: the content of every textRun, concatenated
RECURSIVE RunText(_)
RunText(text_elements) ==
    IF text_elements = <<>> THEN <<>>
    ELSE (IF "textRun" \in DOMAIN Head(text_elements)
          THEN PyGetD(Head(text_elements).textRun, "content", <<>>)
          ELSE <<>>)
         \o RunText(Tail(text_elements))

\* repr(s) of a str without quotes or backslashes
ReprChar(c) == IF c = "\n" THEN "\\n" ELSE IF c = "\t" THEN "\\t" ELSE c
ReprStr(s) == <<"'">> \o [i \in 1..Len(s) |-> ReprChar(s[i])] \o <<"'">>

\* repr(l) of a list of such strs
ReprList(l) == <<"[">> \o Join([i \in 1..Len(l) |-> ReprStr(l[i])], ", ") \o <<"]">>

---------------------------------------------------------------------------
(* get_slide_content: one content block per page element *)

\* stands for the block of a loop pass that raised KeyError
RaisedKeyError == <<"KeyError">>

ShapeBlock(element_id, shape) ==
    LET shape_type == PyGetD(shape, "shapeType", "Unknown")
        text_content ==
            IF "text" \in DOMAIN shape
            THEN RunText(PyGetD(shape.text, "textElements", <<>>))
            ELSE <<>>
    IN <<"[Shape] ID: ", element_id, ", Type: ", shape_type, "\n  Text: ">>
       \o (IF text_content # <<>> THEN Strip(text_content) ELSE <<"(empty)">>)

\* CellText without the strip
CellTextUnstripped(cell) ==
    RunText(PyGetD(PyGetD(cell, "text", EmptyDict), "textElements", <<>>))

CellText(cell) ==
    Strip(RunText(PyGetD(PyGetD(cell, "text", EmptyDict), "textElements", <<>>)))

\* cell_row of one table row
CellRow(row) ==
    LET table_cells == PyGetD(row, "tableCells", <<>>)
    IN [col_idx \in 1..Len(table_cells) |-> CellText(table_cells[col_idx])]

\* table_content: row_idx is zero-based in the code, i is row_idx + 1
TableContent(cells) ==
    [i \in 1..Len(cells) |-> <<"    Row ">> \o IntStr((i - 1) + 1) \o <<": ">>
                             \o ReprList(CellRow(cells[i]))]

TableBlock(element_id, table) ==
    LET rows == PyGetD(table, "rows", 0)
        cols == PyGetD(table, "columns", 0)
        table_content == TableContent(PyGetD(table, "tableRows", <<>>))
    IN <<"[Table] ID: ", element_id, ", Size: ">> \o IntStr(rows) \o <<"x">>
       \o IntStr(cols) \o <<"\n">>
       \o (IF table_content # <<>> THEN Join(table_content, "\n")
           ELSE <<"    (empty table)">>)

ImageBlock(element_id, image) ==
    LET description == PyGetD(image, "description", "")
    IN <<"[Image] ID: ", element_id, "\n  Description: ",
         IF description # "" THEN description ELSE "(no description)">>

VideoBlock(element_id, video) ==
    <<"[Video] ID: ", element_id, "\n  URL: ", PyGetD(video, "url", "(unknown)")>>

LineBlock(element_id, line) ==
    <<"[Line] ID: ", element_id, ", Type: ", PyGetD(line, "lineType", "Unknown")>>

UnknownBlock(element_id) == <<"[Element] ID: ", element_id, ", Type: Unknown">>

\* ElementBlock subscripting element['line'] without the membership test
ElementBlockStrict(element) ==
    LET element_id == PyGetD(element, "objectId", "Unknown")
    IN IF "shape" \in DOMAIN element THEN ShapeBlock(element_id, element.shape)
       ELSE IF "table" \in DOMAIN element THEN TableBlock(element_id, element.table)
       ELSE IF "image" \in DOMAIN element THEN ImageBlock(element_id, element.image)
       ELSE IF "video" \in DOMAIN element THEN VideoBlock(element_id, element.video)
       ELSE IF "line" \in DOMAIN element THEN LineBlock(element_id, element.line)
       ELSE RaisedKeyError

\* the block one pass of the loop over page_elements appends
ElementBlock(element) ==
    LET element_id == PyGetD(element, "objectId", "Unknown")
    IN IF "shape" \in DOMAIN element THEN ShapeBlock(element_id, element.shape)
       ELSE IF "table" \in DOMAIN element THEN TableBlock(element_id, element.table)
       ELSE IF "image" \in DOMAIN element THEN ImageBlock(element_id, element.image)
       ELSE IF "video" \in DOMAIN element THEN VideoBlock(element_id, element.video)
       ELSE IF "line" \in DOMAIN element THEN LineBlock(element_id, element.line)
       ELSE UnknownBlock(element_id)

\* the loop over page_elements: the blocks appended before a pass raises,
\* and whether one did
RECURSIVE ContentBlocks(_)
ContentBlocks(page_elements) ==
    IF page_elements = <<>> THEN [raised |-> FALSE, blocks |-> <<>>]
    ELSE LET rest == ContentBlocks(SubSeq(page_elements, 1, Len(page_elements) - 1))
             block == ElementBlock(page_elements[Len(page_elements)])
         IN IF rest.raised \/ block = RaisedKeyError
            THEN [raised |-> TRUE, blocks |-> rest.blocks]
            ELSE [raised |-> FALSE, blocks |-> Append(rest.blocks, block)]

ContentConfirmation(a, page_elements, content_blocks) ==
    <<"Slide Content Details for ", a.user_google_email,
      ":\n- Presentation ID: ", a.presentation_id,
      "\n- Page ID: ", a.page_object_id,
      "\n- Total Elements: ">> \o IntStr(Len(page_elements))
    \o <<"\n\nContent Summary:\n">>
    \o (IF content_blocks # <<>> THEN Join(content_blocks, "\n")
        ELSE <<"  No content found on this slide.">>)
    \o <<"\n">>

---------------------------------------------------------------------------
(* get_slide_content: the pages the service may return *)

\* textRun contents, one piece per character
Contents == { <<>>, <<"\n">>, <<"a", "\n">>, <<" ", "b">> }

Run(c) == [textRun |-> [content |-> c]]

TextElements ==
    {Run(c) : c \in Contents}
    \cup {[textRun |-> EmptyDict], [paragraphMarker |-> EmptyDict]}

RunLists == SeqUpTo(TextElements, MaxRuns)

Texts == {EmptyDict} \cup {[textElements |-> l] : l \in RunLists}

Shapes ==
    {[shapeType |-> "TEXT_BOX"], [text |-> [textElements |-> <<Run(<<"a", "\n">>)>>]]}
    \cup {[shapeType |-> "TEXT_BOX", text |-> t] : t \in Texts}

Cells == {EmptyDict} \cup {[text |-> t] : t \in Texts}

SimpleCells == {EmptyDict, [text |-> EmptyDict], [text |-> [textElements |-> <<Run(<<" ", "b">>)>>]]}

Rows ==
    {EmptyDict, [tableCells |-> <<>>]}
    \cup {[tableCells |-> <<c>>] : c \in Cells}
    \cup {[tableCells |-> <<c1, c2>>] : c1 \in SimpleCells, c2 \in SimpleCells}

SimpleRows ==
    {EmptyDict, [tableCells |-> <<>>],
     [tableCells |-> <<[text |-> [textElements |-> <<Run(<<"a", "\n">>)>>]]>>],
     [tableCells |-> <<EmptyDict, [text |-> [textElements |-> <<Run(<<" ", "b">>)>>]]>>]}

RowLists == SeqUpTo(SimpleRows, MaxRows) \cup {<<r>> : r \in Rows}

Tables ==
    {EmptyDict, [tableRows |-> <<[tableCells |-> <<EmptyDict>>]>>]}
    \cup {[rows |-> Len(l), columns |-> 2, tableRows |-> l] : l \in RowLists}

\* shapes and tables with every text the bounds allow
RichElements ==
    {[objectId |-> "e1", shape |-> sh] : sh \in Shapes}
    \cup {[objectId |-> "e2", table |-> t] : t \in Tables}

\* elements of the other kinds, with and without their optional fields
SimpleElements ==
    { [objectId |-> "e3", image |-> [description |-> "logo"]],
      [objectId |-> "e4", image |-> EmptyDict],
      [objectId |-> "e5", video |-> [url |-> "http://v"]],
      [line |-> EmptyDict],
      [objectId |-> "e7", wordArt |-> [renderedText |-> "w"]],
      [objectId |-> "e8", table |-> EmptyDict],
      EmptyDict }

\* element lists of at most MaxElems elements, at most one of them rich
PageElementLists ==
    LET around == { f \in SeqUpTo(SimpleElements, MaxElems - 1)
                           \X SeqUpTo(SimpleElements, MaxElems - 1) :
                      Len(f[1]) + Len(f[2]) <= MaxElems - 1 }
    IN SeqUpTo(SimpleElements, MaxElems)
       \cup { f[1] \o <<r>> \o f[2] : f \in around, r \in RichElements }

PagesGetCall(pid, page) ==
    [method |-> "presentations.pages.get", presentationId |-> pid, pageObjectId |-> page]

\* presentations().pages().get(...).execute answers; a page without
\* elements may omit pageElements
ServerGetPage ==
    /\ pending.status = "inflight"
    /\ pending.call.method = "presentations.pages.get"
    /\ \E body \in {[objectId |-> pending.call.pageObjectId]}
                   \cup {[objectId |-> pending.call.pageObjectId, pageElements |-> l] :
                           l \in PageElementLists} :
           /\ pending' = [status |-> "ok", call |-> pending.call, body |-> body]
           /\ answers' = Append(answers, [status |-> "ok", body |-> body])
    /\ UNCHANGED <<pc, tool, args, locals, calls, warnings, result, slides,
                  peer, remote_log>>

---------------------------------------------------------------------------
(* get_slide_content *)

\* from the call to the await of pages().get
GetSlideContentStart ==
    /\ pc = "idle"
    /\ \E e \in Emails, p \in PresentationIds, g \in PageIds :
         LET call == PagesGetCall(p, g)
         IN /\ tool' = "get_slide_content"
            /\ args' = [user_google_email |-> e, presentation_id |-> p,
                        page_object_id |-> g]
            /\ calls' = Append(calls, call)
            /\ pending' = InFlight(call)
    /\ pc' = "await_page"
    /\ UNCHANGED <<locals, warnings, answers, result, slides, peer, remote_log>>

\* from the answer of pages().get to the return
GetSlideContentResume ==
    /\ pc = "await_page"
    /\ Answered
    /\ IF pending.status = "error"
       THEN /\ result' = Raise(pending.exc)
            /\ UNCHANGED locals
       ELSE LET page_elements == PyGetD(pending.body, "pageElements", <<>>)
                walk == ContentBlocks(page_elements)
            IN /\ locals' = [result |-> pending.body,
                             page_elements |-> page_elements,
                             content_blocks |-> walk.blocks]
               /\ result' = IF walk.raised THEN Raise("KeyError")
                            ELSE Return(ContentConfirmation(args, page_elements,
                                                            walk.blocks))
    /\ pc' = "done"
    /\ pending' = NoPending
    /\ UNCHANGED <<tool, args, calls, warnings, answers, slides, peer, remote_log>>

---------------------------------------------------------------------------
(* A concurrent invocation of copy_slide (without updates), create_slide   *)
(* or batch_update_presentation on the same presentation.  Of its state   *)
(* the model keeps what decides its remote calls: its position, the call  *)
(* it is suspended on and whether the service has answered it, the slide  *)
(* list it was given and the requests it built.                           *)

PeerIdle == [pc |-> "idle"]

\* the id the service gives the slide the concurrent invocation adds
PeerSlideId == "new2"

\* create_slide, from the call to the await of the batchUpdate
PeerCreateSlideStart ==
    /\ peer = PeerIdle
    /\ \E ii \in InsertionIndexes :
           peer' = [pc |-> "await_create", tool |-> "create_slide",
                    requests |-> <<CreateSlideRequest(ii, None)>>,
                    pending |-> "inflight"]
    /\ UNCHANGED <<pc, tool, args, locals, calls, pending, warnings, answers, result,
                   slides, remote_log>>

\* batch_update_presentation, from the call to the await of the batchUpdate
PeerBatchUpdatePresentationStart ==
    /\ peer = PeerIdle
    /\ \E requests \in CallerRequestLists :
           peer' = [pc |-> "await_batch_update", tool |-> "batch_update_presentation",
                    requests |-> requests, pending |-> "inflight"]
    /\ UNCHANGED <<pc, tool, args, locals, calls, pending, warnings, answers, result,
                   slides, remote_log>>

\* copy_slide, from the call to the await of presentations().get
PeerCopySlideStart ==
    /\ peer = PeerIdle
    /\ \E src \in SourceIds :
           peer' = [pc |-> "await_get", tool |-> "copy_slide", source |-> src,
                    pending |-> "inflight"]
    /\ UNCHANGED <<pc, tool, args, locals, calls, pending, warnings, answers, result,
                   slides, remote_log>>

\* presentations().get(...).execute answers the concurrent copy_slide
PeerServerGetPresentation ==
    /\ peer.pc = "await_get"
    /\ peer.pending = "inflight"
    /\ peer' = [pc |-> "await_get", tool |-> "copy_slide", source |-> peer.source,
                pending |-> "ok", slides |-> slides]
    /\ UNCHANGED <<pc, tool, args, locals, calls, pending, warnings, answers, result,
                   slides, remote_log>>

\* the concurrent copy_slide, from the answer of presentations().get to the
\* await of the duplication batchUpdate, or to the not-found return
PeerCopySlideAfterGet ==
    /\ peer.pc = "await_get"
    /\ peer.pending \in {"ok", "error"}
    /\ IF peer.pending = "error"
       THEN peer' = [pc |-> "done", tool |-> "copy_slide", source |-> peer.source,
                     pending |-> "none"]
       ELSE LET insertion_index == FindInsertionIndex(peer.slides, peer.source)
            IN IF ~insertion_index.some
               THEN peer' = [pc |-> "done", tool |-> "copy_slide",
                             source |-> peer.source, pending |-> "none",
                             slides |-> peer.slides]
               ELSE peer' = [pc |-> "await_dup", tool |-> "copy_slide",
                             source |-> peer.source, pending |-> "inflight",
                             slides |-> peer.slides,
                             requests |-> <<DuplicateRequest(peer.source,
                                                             insertion_index.val)>>]
    /\ UNCHANGED <<pc, tool, args, locals, calls, pending, warnings, answers, result,
                   slides, remote_log>>

\* presentations().batchUpdate(...).execute answers the concurrent
\* invocation; the batch is applied
PeerServerBatchUpdate ==
    /\ peer.pc \in {"await_create", "await_dup", "await_batch_update"}
    /\ peer.pending = "inflight"
    /\ Len(peer.requests) > 0
    /\ AcceptsAll(slides, peer.requests, PeerSlideId)
    /\ slides' = ApplyAll(slides, peer.requests, PeerSlideId)
    /\ remote_log' = Append(remote_log, [by |-> "peer", slides |-> slides'])
    /\ peer' = [peer EXCEPT !.pending = "ok"]
    /\ UNCHANGED <<pc, tool, args, locals, calls, pending, warnings, answers, result>>

\* .execute raises: a remote call of the concurrent invocation failed
PeerServerRaise ==
    /\ peer.pc \in {"await_get", "await_create", "await_dup", "await_batch_update"}
    /\ peer.pending = "inflight"
    /\ peer' = [peer EXCEPT !.pending = "error"]
    /\ UNCHANGED <<pc, tool, args, locals, calls, pending, warnings, answers, result,
                   slides, remote_log>>

\* the concurrent invocation, from the answer of its batchUpdate to its end;
\* it issues no further remote call
PeerAfterBatchUpdate ==
    /\ peer.pc \in {"await_create", "await_dup", "await_batch_update"}
    /\ peer.pending \in {"ok", "error"}
    /\ peer' = [peer EXCEPT !.pc = "done", !.pending = "none"]
    /\ UNCHANGED <<pc, tool, args, locals, calls, pending, warnings, answers, result,
                   slides, remote_log>>

---------------------------------------------------------------------------
(* Specification *)

SlideList(n) == [i \in 1..n |-> [objectId |-> <<"p1", "p2", "p3", "p4", "p5">>[i]]]

Init ==
    /\ pc = "idle"
    /\ tool = "none"
    /\ args = EmptyDict
    /\ locals = EmptyDict
    /\ calls = <<>>
    /\ pending = NoPending
    /\ warnings = <<>>
    /\ answers = <<>>
    /\ result = NoResult
    /\ slides \in {SlideList(n) : n \in 0..MaxSlides}
    /\ peer = PeerIdle
    /\ remote_log = <<>>

Next ==
    \/ UpdateSlideContentStart
    \/ UpdateSlideContentResume
    \/ CopySlideStart
    \/ CopySlideAfterGet
    \/ CopySlideAfterDuplicate
    \/ CopySlideAfterUpdate
    \/ CreateSlideStart
    \/ CreateSlideResume
    \/ BatchUpdatePresentationStart
    \/ BatchUpdatePresentationResume
    \/ ServerGetPresentation
    \/ ServerBatchUpdate
    \/ ServerRaise

Spec == Init /\ [][Next]_vars

\* the read tool, against a presentation of one slide
InitExtract == Init /\ Len(slides) = 1

NextExtract ==
    \/ GetSlideContentStart
    \/ GetSlideContentResume
    \/ ServerGetPage
    \/ ServerRaise

SpecExtract == InitExtract /\ [][NextExtract]_vars

\* one invocation of any of the five tools
NextAll ==
    \/ UpdateSlideContentStart
    \/ UpdateSlideContentResume
    \/ CopySlideStart
    \/ CopySlideAfterGet
    \/ CopySlideAfterDuplicate
    \/ CopySlideAfterUpdate
    \/ CreateSlideStart
    \/ CreateSlideResume
    \/ BatchUpdatePresentationStart
    \/ BatchUpdatePresentationResume
    \/ GetSlideContentStart
    \/ GetSlideContentResume
    \/ ServerGetPresentation
    \/ ServerBatchUpdate
    \/ ServerGetPage
    \/ ServerRaise

SpecAll == Init /\ [][NextAll]_vars

\* one copy_slide invocation and a concurrent copy_slide, create_slide or
\* batch_update_presentation invocation, their remote calls answered and
\* their coroutines resumed in any order
NextConc ==
    \/ CopySlideStart
    \/ CopySlideAfterGet
    \/ CopySlideAfterDuplicate
    \/ CopySlideAfterUpdate
    \/ ServerGetPresentation
    \/ ServerBatchUpdate
    \/ ServerRaise
    \/ PeerCreateSlideStart
    \/ PeerBatchUpdatePresentationStart
    \/ PeerCopySlideStart
    \/ PeerServerGetPresentation
    \/ PeerCopySlideAfterGet
    \/ PeerServerBatchUpdate
    \/ PeerServerRaise
    \/ PeerAfterBatchUpdate

SpecConc == Init /\ [][NextConc]_vars

---------------------------------------------------------------------------
(* Properties: vocabulary *)

HasType(upd, t) == "update_type" \in DOMAIN upd /\ upd.update_type = t

CountType(updates, t) == Cardinality({i \in 1..Len(updates) : HasType(updates[i], t)})

\* number of requests an update spec stands for
Width(upd) ==
    IF HasType(upd, "shape_text") \/ HasType(upd, "table_cell") THEN 2
    ELSE IF HasType(upd, "image_description") THEN 1
    ELSE 0

\* number of requests the specs before the i-th stand for
RECURSIVE Offset(_, _)
Offset(updates, i) ==
    IF i = 1 THEN 0 ELSE Offset(updates, i - 1) + Width(updates[i - 1])

\* position of the first piece p in s
PieceIndex(s, p) == CHOOSE i \in 1..Len(s) : s[i] = p /\ \A j \in 1..(i - 1) : s[j] # p

\* s without its surrounding whitespace
Trimmed(s) ==
    LET solid == {i \in 1..Len(s) : ~IsSpace(s[i])}
    IN IF solid = {} THEN <<>>
       ELSE SubSeq(s, CHOOSE i \in solid : \A j \in solid : i <= j,
                      CHOOSE i \in solid : \A j \in solid : i >= j)

\* contents of the textRun fragments of a shape or cell, in document order
RECURSIVE Concat(_)
Concat(ss) == IF ss = <<>> THEN <<>> ELSE Concat(SubSeq(ss, 1, Len(ss) - 1)) \o ss[Len(ss)]

FragmentText(holder) ==
    IF "text" \in DOMAIN holder /\ "textElements" \in DOMAIN holder.text
    THEN LET runs == SelectSeq(holder.text.textElements,
                               LAMBDA te : "textRun" \in DOMAIN te
                                           /\ "content" \in DOMAIN te.textRun)
         IN Concat([i \in 1..Len(runs) |-> runs[i].textRun.content])
    ELSE <<>>

Updating == tool = "update_slide_content"
Copying == tool = "copy_slide"
Creating == tool = "create_slide"
Reading == tool = "get_slide_content"
BatchUpdating == tool = "batch_update_presentation"

\* the slide list copy_slide fetched, once it has
Fetched == Copying /\ "slides" \in DOMAIN locals

SourceFound ==
    \E i \in 1..Len(locals.slides) :
        locals.slides[i].objectId = args.source_page_object_id

\* zero-based position of the source in the fetched slide list
SourcePosition ==
    CHOOSE pos \in 0..(Len(locals.slides) - 1) :
        /\ locals.slides[pos + 1].objectId = args.source_page_object_id
        /\ \A j \in 0..(pos - 1) :
               locals.slides[j + 1].objectId # args.source_page_object_id

---------------------------------------------------------------------------
(* Properties of update_slide_content *)

\* C1: the compiled request list has 2 requests per shape_text and
\* table_cell spec and 1 per image_description spec, in the input order of
\* the specs; the deleteText of a spec is immediately followed by its
\* insertText, for the same element id and, for table_cell, the same cell
\* location; a non-empty list is what the batchUpdate call carries.
C1_CompiledRequests ==
    Updating =>
        LET u == args.updates
            r == locals.requests
        IN /\ Len(r) = 2 * CountType(u, "shape_text") + 2 * CountType(u, "table_cell")
                       + CountType(u, "image_description")
           /\ Len(r) > 0 => Len(calls) = 1 /\ calls[1].body.requests = r
           /\ \A i \in 1..Len(u) :
                LET o == Offset(u, i)
                    id == PyGet(u[i], "element_id")
                IN /\ HasType(u[i], "shape_text") =>
                        /\ DOMAIN r[o + 1] = {"deleteText"}
                        /\ DOMAIN r[o + 2] = {"insertText"}
                        /\ r[o + 1].deleteText.objectId = id
                        /\ r[o + 2].insertText.objectId = id
                   /\ HasType(u[i], "table_cell") =>
                        /\ DOMAIN r[o + 1] = {"deleteText"}
                        /\ DOMAIN r[o + 2] = {"insertText"}
                        /\ r[o + 1].deleteText.objectId = id
                        /\ r[o + 2].insertText.objectId = id
                        /\ r[o + 1].deleteText.cellLocation
                             = [rowIndex |-> PyGet(u[i], "row"),
                                columnIndex |-> PyGet(u[i], "column")]
                        /\ r[o + 2].insertText.cellLocation
                             = r[o + 1].deleteText.cellLocation
                   /\ HasType(u[i], "image_description") =>
                        /\ DOMAIN r[o + 1] = {"updateImageProperties"}
                        /\ r[o + 1].updateImageProperties.objectId = id

\* a table_cell spec after a shape_text spec was compiled and sent
C1_Witness ==
    /\ Updating
    /\ pc = "done"
    /\ Len(args.updates) = 2
    /\ HasType(args.updates[1], "shape_text")
    /\ HasType(args.updates[2], "table_cell")
    /\ Len(locals.requests) = 4
    /\ result.kind = "return"

\* C2: an updates list that is empty or holds only specs of unrecognized
\* update_type compiles to no request, and the invocation returns the "no
\* valid updates" message without any remote call.
C2_NoValidUpdates ==
    (Updating /\ \A i \in 1..Len(args.updates) : Width(args.updates[i]) = 0) =>
        /\ locals.requests = <<>>
        /\ calls = <<>>
        /\ answers = <<>>
        /\ pending = NoPending
        /\ pc = "done"
        /\ result = Return(<<"No valid updates were provided.">>)

\* two specs of unrecognized update_type were given
C2_Witness ==
    /\ Updating
    /\ pc = "done"
    /\ Len(args.updates) = 2
    /\ \A i \in 1..2 : Width(args.updates[i]) = 0
    /\ Len(warnings) = 2
    /\ result.kind = "return"

\* C10: with a non-empty compiled sequence, the whole sequence goes out in
\* exactly one batchUpdate call, and the returned summary has one line per
\* update spec, in input order, of the form of its update_type, with
\* "Requests Sent" the length of the compiled sequence.
C10_OneBatchAndSummary ==
    Updating =>
        LET u == args.updates
            r == locals.requests
        IN /\ Len(calls) <= 1
           /\ Len(r) > 0 =>
                /\ calls = <<[method |-> "presentations.batchUpdate",
                              presentationId |-> args.presentation_id,
                              body |-> [requests |-> r]]>>
           /\ (pc = "done" /\ result.kind = "return" /\ Len(r) > 0) =>
                LET msg == result.value
                    sent == PieceIndex(msg, "\n- Requests Sent: ")
                    recv == PieceIndex(msg, "\n- Replies Received: ")
                    head == PieceIndex(msg, "\n\nUpdate Summary:\n")
                    line(i) ==
                        LET id == IF "element_id" \in DOMAIN u[i]
                                  THEN u[i].element_id ELSE "None"
                        IN IF HasType(u[i], "shape_text")
                           THEN <<"Shape (ID: ", id, "): Text updated">>
                           ELSE IF HasType(u[i], "table_cell")
                           THEN <<"Table (ID: ", id, "), Cell (">>
                                \o FmtInt(PyGet(u[i], "row")) \o <<", ">>
                                \o FmtInt(PyGet(u[i], "column"))
                                \o <<"): Text updated">>
                           ELSE IF HasType(u[i], "image_description")
                           THEN <<"Image (ID: ", id, "): Description updated">>
                           ELSE <<"Element (ID: ", id, "): Skipped (unknown type)">>
                IN /\ SubSeq(msg, sent + 1, recv - 1) = IntStr(Len(r))
                   /\ SubSeq(msg, head + 1, Len(msg))
                        = Join([i \in 1..Len(u) |-> line(i)], "\n") \o <<"\n">>

\* a shape_text spec and a spec of unrecognized type were summarised
C10_Witness ==
    /\ Updating
    /\ pc = "done"
    /\ result.kind = "return"
    /\ Len(args.updates) = 2
    /\ HasType(args.updates[1], "shape_text")
    /\ Width(args.updates[2]) = 0
    /\ Len(calls) = 1
    /\ locals.summary[2] = <<"Element (ID: ", "S1", "): Skipped (unknown type)">>

---------------------------------------------------------------------------
(* Properties of copy_slide and create_slide *)

\* C3: when the source slide id is the objectId of no fetched slide,
\* copy_slide issues no batchUpdate call and returns the not-found message.
C3_NotFoundNoBatch ==
    (Fetched /\ ~SourceFound) =>
        /\ \A i \in 1..Len(calls) : calls[i].method # "presentations.batchUpdate"
        /\ Len(calls) = 1
        /\ pc = "done"
        /\ result = Return(<<"Source slide with object ID '",
                             args.source_page_object_id, "' not found.">>)

\* the source was looked for among two slides and not found
C3_Witness ==
    /\ Fetched
    /\ ~SourceFound
    /\ Len(locals.slides) = 2
    /\ pc = "done"
    /\ result.kind = "return"

\* C4: whenever the source slide is found, the duplicateObject request
\* carries as insertionIndex the zero-based position of the source in the
\* fetched slide list plus one.
C4_InsertionIndex ==
    (Fetched /\ SourceFound) =>
        /\ Len(calls) >= 2
        /\ calls[2] = [method |-> "presentations.batchUpdate",
                       presentationId |-> args.presentation_id,
                       body |-> [requests |->
                           <<[duplicateObject |->
                                [objectId |-> args.source_page_object_id,
                                 insertionIndex |-> SourcePosition + 1]]>>]]

\* the slide at index 2 of 3 was copied to index 3
C4_Witness ==
    /\ Fetched
    /\ SourceFound
    /\ Len(locals.slides) = 3
    /\ SourcePosition = 2
    /\ pc = "done"
    /\ result.kind = "return"
    /\ calls[2].body.requests[1].duplicateObject.insertionIndex = 3
    /\ Len(slides) = 4
    /\ slides[4].objectId = NewSlideId

\* the new object id is absent from a batchUpdate reply body
IdAbsent(body, k) ==
    \/ "replies" \notin DOMAIN body
    \/ /\ "replies" \in DOMAIN body
       /\ \/ Len(body.replies) = 0
          \/ /\ Len(body.replies) > 0
             /\ \/ k \notin DOMAIN body.replies[1]
                \/ /\ k \in DOMAIN body.replies[1]
                   /\ "objectId" \in DOMAIN body.replies[1][k]
                   /\ body.replies[1][k].objectId = ""

\* C5: in copy_slide and create_slide, for every successful batchUpdate
\* reply from which the new object id is absent (no replies key, an empty
\* replies list, a first reply without the duplicateObject/createSlide
\* entry, an empty objectId), the invocation returns a plain failure
\* string, raises no fault and issues no further remote call.
C5_AbsentIdIsPlainFailure ==
    /\ (Copying /\ pc = "done" /\ Len(answers) >= 2 /\ answers[2].status = "ok"
          /\ IdAbsent(answers[2].body, "duplicateObject")) =>
            /\ result = Return(<<"Failed to duplicate slide ",
                                 args.source_page_object_id, ".">>)
            /\ Len(calls) = 2
    /\ (Creating /\ pc = "done" /\ answers[1].status = "ok"
          /\ IdAbsent(answers[1].body, "createSlide")) =>
            /\ result = Return(<<"Failed to create a new slide.">>)
            /\ Len(calls) = 1

\* the content-update batch of a copy_slide invocation failed
UpdateBatchFailed ==
    /\ Copying
    /\ pc = "done"
    /\ Len(answers) = 3
    /\ answers[3].status = "error"

\* C6 as stated: when the duplication succeeded and the content-update
\* batch fails, no further mutation is issued and the invocation still
\* returns the copy summary.
C6_SummaryAfterFailedUpdate ==
    UpdateBatchFailed =>
        /\ Len(calls) = 3
        /\ result.kind = "return"
        /\ result.value[1] = "Slide Copied Successfully for "

\* C6 amended: when the duplication succeeded and the content-update batch
\* fails, no further remote call (no rollback, no compensating mutation) is
\* issued and the duplicate stays in the remote slide list, and the
\* invocation returns no summary: the failure of the call is raised to the
\* caller.
C6_FailedUpdatePropagates ==
    UpdateBatchFailed =>
        /\ Len(calls) = 3
        /\ calls[3].body.requests = locals.update_requests
        /\ slides = InsertAt(locals.slides, locals.insertion_index,
                             [objectId |-> locals.new_slide_id])
        /\ result = Raise(answers[3].exc)

\* the content-update batch failed after a duplication that succeeded
C6_Witness ==
    /\ UpdateBatchFailed
    /\ answers[2].status = "ok"
    /\ locals.new_slide_id = NewSlideId
    /\ Len(slides) = Len(locals.slides) + 1
    /\ result.kind = "raise"

---------------------------------------------------------------------------
(* Properties of get_slide_content *)

\* the page elements the service returned
ReturnedElements == PyGetD(answers[1].body, "pageElements", <<>>)

Extracted == Reading /\ pc = "done" /\ answers[1].status = "ok"

Tag(element) ==
    IF "shape" \in DOMAIN element THEN "[Shape] ID: "
    ELSE IF "table" \in DOMAIN element THEN "[Table] ID: "
    ELSE IF "image" \in DOMAIN element THEN "[Image] ID: "
    ELSE IF "video" \in DOMAIN element THEN "[Video] ID: "
    ELSE IF "line" \in DOMAIN element THEN "[Line] ID: "
    ELSE "[Element] ID: "

\* C7: for every list of page elements, of any mix of kinds and with any
\* optional field missing, get_slide_content returns, and its summary holds
\* exactly one content block per element, in the elements' order.
C7_OneBlockPerElement ==
    Extracted =>
        LET els == ReturnedElements
            blocks == locals.content_blocks
        IN /\ result.kind = "return"
           /\ Len(blocks) = Len(els)
           /\ \A i \in 1..Len(els) :
                /\ blocks[i][1] = Tag(els[i])
                /\ blocks[i][2] = IF "objectId" \in DOMAIN els[i]
                                  THEN els[i].objectId ELSE "Unknown"
           /\ Len(els) > 0 =>
                LET msg == result.value
                    head == PieceIndex(msg, "\n\nContent Summary:\n")
                IN SubSeq(msg, head + 1, Len(msg)) = Join(blocks, "\n") \o <<"\n">>

\* an unrecognized element and a shape without text were summarised
C7_Witness ==
    /\ Extracted
    /\ Len(ReturnedElements) = 2
    /\ ReturnedElements[1] = EmptyDict
    /\ "shape" \in DOMAIN ReturnedElements[2]
    /\ "text" \notin DOMAIN ReturnedElements[2].shape
    /\ Len(locals.content_blocks) = 2

\* C8: the text rendered for a shape is the concatenation of its textRun
\* contents with the surrounding whitespace trimmed, and "(empty)"
\* whenever that trimmed text is empty.
C8_ShapeText ==
    Extracted =>
        \A i \in 1..Len(ReturnedElements) :
            "shape" \in DOMAIN ReturnedElements[i] =>
                LET block == locals.content_blocks[i]
                    text == Trimmed(FragmentText(ReturnedElements[i].shape))
                IN SubSeq(block, PieceIndex(block, "\n  Text: ") + 1, Len(block))
                     = IF text = <<>> THEN <<"(empty)">> ELSE text

\* C9: a table renders one row line per table row, in order, each listing
\* for every cell the trimmed concatenation of its textRun contents, the
\* empty string for a cell without text; a table of zero rows renders
\* "(empty table)".
C9_TableRows ==
    Extracted =>
        \A i \in 1..Len(ReturnedElements) :
            "table" \in DOMAIN ReturnedElements[i] =>
                LET block == locals.content_blocks[i]
                    table == ReturnedElements[i].table
                    rows == IF "tableRows" \in DOMAIN table THEN table.tableRows ELSE <<>>
                    cells(r) == IF "tableCells" \in DOMAIN rows[r]
                                THEN rows[r].tableCells ELSE <<>>
                    line(r) ==
                        <<"    Row ">> \o IntStr(r) \o <<": ">>
                        \o ReprList([c \in 1..Len(cells(r)) |->
                                        Trimmed(FragmentText(cells(r)[c]))])
                IN SubSeq(block, PieceIndex(block, "\n") + 1, Len(block))
                     = IF Len(rows) = 0 THEN <<"    (empty table)">>
                       ELSE Join([r \in 1..Len(rows) |-> line(r)], "\n")

\* a table of two rows, one with a cell without text, was rendered
C9_Witness ==
    /\ Extracted
    /\ \E i \in 1..Len(ReturnedElements) :
          /\ "table" \in DOMAIN ReturnedElements[i]
          /\ "tableRows" \in DOMAIN ReturnedElements[i].table
          /\ Len(ReturnedElements[i].table.tableRows) = 2
          /\ ReturnedElements[i].table.tableRows[1]
                = [tableCells |-> <<EmptyDict,
                                    [text |-> [textElements |-> <<Run(<<" ", "b">>)>>]]>>]
          /\ ReturnedElements[i].table.tableRows[2] = EmptyDict
          /\ locals.content_blocks[i]
                = <<"[Table] ID: ", "e2", ", Size: ", "2", "x", "2", "\n",
                    "    Row ", "1", ": ", "[", "'", "'", ", ", "'", "b", "'", "]", "\n",
                    "    Row ", "2", ": ", "[", "]">>

---------------------------------------------------------------------------
(* Properties of the remote calls of copy_slide *)

\* the updates list a copy_slide invocation was given, empty for None
GivenUpdates == IF args.updates.some THEN args.updates.val ELSE <<>>

\* the duplication reply was read and carried a new slide id
Duplicated == Copying /\ "new_slide_id" \in DOMAIN locals

\* C11: for every updates list, the operation sequence copy_slide builds
\* for its second batch is the one update_slide_content builds from the
\* same list (same operations, order and fields), and copy_slide issues the
\* second batch only when that sequence is non-empty.
C11_SameCompiledSequence ==
    Duplicated =>
        /\ "update_requests" \in DOMAIN locals <=> Truthy(args.updates)
        /\ Truthy(args.updates) =>
               locals.update_requests = BuildRequests(GivenUpdates)
        /\ Len(calls) = (IF Len(BuildRequests(GivenUpdates)) > 0 THEN 3 ELSE 2)
        /\ Len(calls) = 3 =>
               calls[3] = [method |-> "presentations.batchUpdate",
                           presentationId |-> args.presentation_id,
                           body |-> [requests |-> BuildRequests(GivenUpdates)]]

\* a table cell and an image description were compiled into three
\* operations and sent as the second batch
C11_Witness ==
    /\ Duplicated
    /\ Len(GivenUpdates) = 2
    /\ PyGet(GivenUpdates[1], "update_type") = Some("table_cell")
    /\ PyGet(GivenUpdates[2], "update_type") = Some("image_description")
    /\ Len(calls) = 3
    /\ Len(calls[3].body.requests) = 3
    /\ pc = "done"
    /\ result.kind = "return"

\* a successful batchUpdate reply body carries a non-empty new object id
YieldsId(body, k) ==
    /\ "replies" \in DOMAIN body
    /\ Len(body.replies) > 0
    /\ k \in DOMAIN body.replies[1]
    /\ "objectId" \in DOMAIN body.replies[1][k]
    /\ body.replies[1][k].objectId # ""

\* the operations of a content-update batch
ContentOps == {{"deleteText"}, {"insertText"}, {"updateImageProperties"}}

\* C12: within one copy_slide invocation the remote calls are, in this
\* order, get presentation, duplication batchUpdate, content-update
\* batchUpdate, each issued only after the previous one was answered; the
\* content-update batch is issued only when the duplication reply yielded a
\* new slide id, so the remote slide list holds the duplicate whenever the
\* content-update batch is in flight or applied.
C12_CallOrder ==
    Copying =>
        /\ Len(calls) \in 1..3
        /\ Len(answers) <= Len(calls)
        /\ Len(calls) <= Len(answers) + 1
        /\ calls[1] = [method |-> "presentations.get",
                       presentationId |-> args.presentation_id]
        /\ Len(calls) >= 2 =>
               /\ answers[1].status = "ok"
               /\ calls[2].method = "presentations.batchUpdate"
               /\ Len(calls[2].body.requests) = 1
               /\ DOMAIN calls[2].body.requests[1] = {"duplicateObject"}
        /\ Len(calls) = 3 =>
               /\ answers[2].status = "ok"
               /\ YieldsId(answers[2].body, "duplicateObject")
               /\ calls[3].method = "presentations.batchUpdate"
               /\ Len(calls[3].body.requests) > 0
               /\ \A i \in 1..Len(calls[3].body.requests) :
                      DOMAIN calls[3].body.requests[i] \in ContentOps
               /\ \E i \in 1..Len(slides) :
                      slides[i].objectId
                          = answers[2].body.replies[1].duplicateObject.objectId

\* the three calls of one invocation were issued and answered in turn
C12_Witness ==
    /\ Copying
    /\ pc = "done"
    /\ Len(calls) = 3
    /\ Len(answers) = 3
    /\ \A i \in 1..3 : answers[i].status = "ok"
    /\ result.kind = "return"

---------------------------------------------------------------------------
(* Properties of the remote round trips of every tool *)

\* the invocation called the remote service and returned a string
ReturnedAfterCalls == pc = "done" /\ result.kind = "return" /\ Len(calls) >= 1

\* C13 as stated: every invocation that reaches the remote service makes
\* one or two round trips before its return string is produced.
C13_OneOrTwoRoundTrips ==
    ReturnedAfterCalls => Len(answers) \in {1, 2}

\* C13 amended: every invocation that reaches the remote service makes one
\* to three round trips, all answered without a fault, before its return
\* string is produced: one for update_slide_content, create_slide,
\* batch_update_presentation and get_slide_content; for copy_slide one when the source is not found, two
\* when the duplication reply yields no new slide id or the updates compile
\* to no operation, and three otherwise.
C13_OneToThreeRoundTrips ==
    ReturnedAfterCalls =>
        /\ Len(answers) = Len(calls)
        /\ \A i \in 1..Len(answers) : answers[i].status = "ok"
        /\ (Updating \/ Creating \/ Reading \/ BatchUpdating) => Len(calls) = 1
        /\ Copying =>
               Len(calls) =
                   (IF ~SourceFound THEN 1
                    ELSE IF ~YieldsId(answers[2].body, "duplicateObject") THEN 2
                    ELSE IF Len(BuildRequests(GivenUpdates)) = 0 THEN 2
                    ELSE 3)

\* a copy with one shape_text update returned its confirmation after three
\* round trips
C13_Witness ==
    /\ Copying
    /\ ReturnedAfterCalls
    /\ Len(answers) = 3
    /\ Len(GivenUpdates) = 1
    /\ PyGet(GivenUpdates[1], "update_type") = Some("shape_text")
    /\ result.value[1] = "Slide Copied Successfully for "

\* C14: no invocation retries: no remote request is issued twice, and once
\* a remote call of an invocation has failed the invocation issues no
\* further remote call and ends by raising that failure unchanged.
C14_NoRetry ==
    /\ Len(answers) <= Len(calls)
    /\ \A i, j \in 1..Len(calls) : i # j => calls[i] # calls[j]
    /\ \A i \in 1..Len(answers) :
          answers[i].status = "error" =>
              /\ i = Len(answers)
              /\ Len(calls) = i
              /\ pending.status \in {"error", "none"}
              /\ pc # "idle"
              /\ pc = "done" => result = Raise(answers[i].exc)

\* the duplication batch of a copy_slide invocation failed and the
\* invocation ended there
C14_Witness ==
    /\ Copying
    /\ pc = "done"
    /\ Len(answers) = 2
    /\ answers[1].status = "ok"
    /\ answers[2].status = "error"
    /\ Len(calls) = 2
    /\ result = Raise("HttpError")
    /\ Truthy(args.updates)

---------------------------------------------------------------------------
(* Properties of concurrent invocations *)

\* the copy_slide invocation returned its confirmation
CopySucceeded ==
    /\ Copying
    /\ pc = "done"
    /\ result.kind = "return"
    /\ result.value[1] = "Slide Copied Successfully for "

\* the remote slide list at the moment the duplication batch of the
\* copy_slide invocation was applied
AtDuplication ==
    LET i == CHOOSE k \in 1..Len(remote_log) :
                 /\ remote_log[k].by = "self"
                 /\ \A j \in 1..(k - 1) : remote_log[j].by # "self"
    IN remote_log[i].slides

\* in sl the slide with id dup comes immediately after the slide with id src
ImmediatelyAfter(sl, src, dup) ==
    \E i \in 1..(Len(sl) - 1) : sl[i].objectId = src /\ sl[i + 1].objectId = dup

\* C15: when a copy_slide invocation runs concurrently with another
\* invocation that mutates the slide list of the same presentation, in any
\* interleaving of their remote calls, a copy_slide that reports success
\* has placed its duplicate immediately after its source slide in the
\* remote slide list at the moment its duplication batch was applied.
C15_DuplicateAfterSource ==
    CopySucceeded =>
        ImmediatelyAfter(AtDuplication, args.source_page_object_id,
                         locals.new_slide_id)

====
